---- MODULE Spec2Model ----
(***************************************************************************)
(* A model of the TONAS loader, mirdata/datasets/TONAS.py: the tuning-     *)
(* aware pitch converter midi_to_hz, the parsers load_notes and load_f0,   *)
(* the validated containers NoteDataTonas and F0DataTonas, and the Track   *)
(* facade with its cached properties.                                      *)
(*                                                                         *)
(* Text is a sequence of one-character strings.  Times, energies and the   *)
(* frequencies read from a file are integers.  A frequency computed by     *)
(* midi_to_hz is a real of the form m * 2^(e/1200), kept exactly as the    *)
(* record [m |-> m, e |-> e] with m odd (or m = 0 and e = 0); two such     *)
(* reals are equal exactly when their records are.                         *)
(***************************************************************************)
EXTENDS Integers, Sequences, FiniteSets, TLC

VARIABLES
    input,   \* the call under way: a function's argument, or the property accessed
    src,     \* what the text in input was written from (history, never read by the code)
    ret,     \* the call's outcome: NotCalled, a returned value or a raised exception
    paths,   \* Track.f0_path and Track.notes_path of every track (None: not in the index)
    disk,    \* the annotation file at each path: there or not, and its text
    cache    \* every track's instance dictionary: the cached properties computed so far

vars == <<input, src, ret, paths, disk, cache>>

(***************************************************************************)
(* Outcomes of a call.                                                     *)
(***************************************************************************)
NotCalled == [exc |-> "not called"]

Ok(v) == [exc |-> "none", val |-> v]

Raise(e) == [exc |-> e]

Returned(r) == r.exc = "none"

Raised(r) == r.exc \notin {"none", "not called"}

None == [type |-> "NoneType"]

(***************************************************************************)
(* Exact arithmetic on the reals m * 2^(e/1200).                           *)
(***************************************************************************)
RECURSIVE Norm(_)
Norm(r) ==
    IF r.m = 0 THEN [m |-> 0, e |-> 0]
    ELSE IF r.m % 2 = 0 THEN Norm([m |-> r.m \div 2, e |-> r.e + 1200])
    ELSE r

FromInt(n) == Norm([m |-> n, e |-> 0])

Mul(a, b) == Norm([m |-> a.m * b.m, e |-> a.e + b.e])

RECURSIVE Log2(_)
Log2(n) == IF n <= 1 THEN 0 ELSE 1 + Log2(n \div 2)

\* a / n for n a power of two
DivPow2(a, n) == Norm([m |-> a.m, e |-> a.e - 1200 * Log2(n)])

\* 2 ** (num / den), for den a divisor of 1200 * num
Pow2(num, den) == [m |-> 1, e |-> (1200 * num) \div den]

RECURSIVE IntPow2(_)
IntPow2(k) == IF k <= 0 THEN 1 ELSE 2 * IntPow2(k - 1)

(***************************************************************************)
(* midi_to_hz: MIDI pitch and tuning deviation (cents) to                  *)
(* (note frequency, tuning frequency).                                     *)
(***************************************************************************)
\* a variant: the exponent taken from MIDI note 8 instead of 9
midi_to_hz_offset8(midi_note, tuning_deviation) ==
    LET tuning_frequency == Mul(FromInt(440), Pow2(tuning_deviation, 1200))
    IN  <<Mul(DivPow2(tuning_frequency, 32), Pow2(midi_note - 8, 12)),
          tuning_frequency>>

midi_to_hz(midi_note, tuning_deviation) ==
    LET tuning_frequency == Mul(FromInt(440), Pow2(tuning_deviation, 1200))
    IN  <<Mul(DivPow2(tuning_frequency, 32), Pow2(midi_note - 9, 12)),
          tuning_frequency>>

(***************************************************************************)
(* numpy arrays, and the validators of mirdata.annotations.                *)
(***************************************************************************)
Array(seq) == [type |-> "ndarray", data |-> seq]

IsNone(x) == x = None

\* the first exception among the outcomes of a run of checks, else Ok(None)
RECURSIVE FirstRaise(_)
FirstRaise(checks) ==
    IF checks = <<>> THEN Ok(None)
    ELSE IF Raised(Head(checks)) THEN Head(checks)
    ELSE FirstRaise(Tail(checks))

validate_array_like(array_like, none_allowed) ==
    IF IsNone(array_like) /\ ~none_allowed
    THEN Raise("ValidationError")
    ELSE Ok(None)

validate_lengths_equal(array_list) ==
    LET given == {i \in DOMAIN array_list : ~IsNone(array_list[i])}
    IN  IF \E i, j \in given : Len(array_list[i].data) # Len(array_list[j].data)
        THEN Raise("ValidationError")
        ELSE Ok(None)

validate_intervals(intervals) ==
    IF IsNone(intervals) THEN Ok(None)
    ELSE IF \E i \in DOMAIN intervals.data :
               \/ intervals.data[i][1] < 0
               \/ intervals.data[i][2] <= intervals.data[i][1]
    THEN Raise("ValidationError")
    ELSE Ok(None)

validate_times(times) ==
    IF IsNone(times) THEN Ok(None)
    ELSE IF \/ \E i \in DOMAIN times.data : times.data[i] < 0
            \/ \E i \in DOMAIN times.data :
                  i > 1 /\ times.data[i] <= times.data[i - 1]
    THEN Raise("ValidationError")
    ELSE Ok(None)

validate_confidence(confidence) ==
    IF IsNone(confidence) THEN Ok(None)
    ELSE IF \E i \in DOMAIN confidence.data :
               confidence.data[i] < 0 \/ confidence.data[i] > 1
    THEN Raise("ValidationError")
    ELSE Ok(None)

\* annotations.NoteData.__init__ and annotations.F0Data.__init__
NoteData_init(intervals, notes, confidence) ==
    FirstRaise(<<validate_array_like(intervals, FALSE),
                 validate_array_like(notes, FALSE),
                 validate_array_like(confidence, TRUE),
                 validate_lengths_equal(<<intervals, notes, confidence>>),
                 validate_intervals(intervals),
                 validate_confidence(confidence)>>)

F0Data_init(times, frequencies, confidence) ==
    FirstRaise(<<validate_array_like(times, FALSE),
                 validate_array_like(frequencies, FALSE),
                 validate_array_like(confidence, TRUE),
                 validate_lengths_equal(<<times, frequencies, confidence>>),
                 validate_times(times),
                 validate_confidence(confidence)>>)

(***************************************************************************)
(* The containers.                                                         *)
(***************************************************************************)
\* a variant: energies left out of the length check
NoteDataTonas_energies_unchecked(intervals, notes, energies, confidence) ==
    LET checks == FirstRaise(<<
            NoteData_init(intervals, notes, confidence),
            validate_array_like(intervals, FALSE),
            validate_array_like(notes, FALSE),
            validate_array_like(energies, FALSE),
            validate_array_like(confidence, TRUE),
            validate_lengths_equal(<<intervals, notes, confidence>>),
            validate_intervals(intervals),
            validate_confidence(confidence)>>)
    IN  IF Raised(checks) THEN checks
        ELSE Ok([type |-> "NoteDataTonas", intervals |-> intervals,
                 notes |-> notes, energies |-> energies,
                 confidence |-> confidence])

NoteDataTonas(intervals, notes, energies, confidence) ==
    LET checks == FirstRaise(<<
            NoteData_init(intervals, notes, confidence),
            validate_array_like(intervals, FALSE),
            validate_array_like(notes, FALSE),
            validate_array_like(energies, FALSE),
            validate_array_like(confidence, TRUE),
            validate_lengths_equal(<<intervals, notes, energies, confidence>>),
            validate_intervals(intervals),
            validate_confidence(confidence)>>)
    IN  IF Raised(checks) THEN checks
        ELSE Ok([type |-> "NoteDataTonas", intervals |-> intervals,
                 notes |-> notes, energies |-> energies,
                 confidence |-> confidence])

F0DataTonas(times, automatic_frequencies, frequencies, energies, confidence) ==
    LET checks == FirstRaise(<<
            F0Data_init(times, frequencies, confidence),
            validate_array_like(times, FALSE),
            validate_array_like(automatic_frequencies, FALSE),
            validate_array_like(frequencies, FALSE),
            validate_array_like(energies, FALSE),
            validate_array_like(confidence, TRUE),
            validate_lengths_equal(<<times, automatic_frequencies, frequencies,
                                     energies, confidence>>),
            validate_times(times),
            validate_confidence(confidence)>>)
    IN  IF Raised(checks) THEN checks
        ELSE Ok([type |-> "F0DataTonas", times |-> times,
                 automatic_frequencies |-> automatic_frequencies,
                 frequencies |-> frequencies, energies |-> energies,
                 confidence |-> confidence])

(***************************************************************************)
(* Text: a sequence of one-character strings.  str writes an integer,      *)
(* float reads one (an optional "-" and one or more digits; anything else  *)
(* is a ValueError).                                                       *)
(***************************************************************************)
Digits == <<"0", "1", "2", "3", "4", "5", "6", "7", "8", "9">>

IsDigit(c) == \E d \in 1..10 : Digits[d] = c

DigitVal(c) == (CHOOSE d \in 1..10 : Digits[d] = c) - 1

RECURSIVE NatText(_)
NatText(n) ==
    IF n < 10 THEN <<Digits[n + 1]>>
    ELSE NatText(n \div 10) \o <<Digits[(n % 10) + 1]>>

str(n) == IF n < 0 THEN <<"-">> \o NatText(-n) ELSE NatText(n)

RECURSIVE NatVal(_, _)
NatVal(s, acc) ==
    IF s = <<>> THEN acc
    ELSE NatVal(Tail(s), 10 * acc + DigitVal(Head(s)))

float(s) ==
    LET body == IF s # <<>> /\ Head(s) = "-" THEN Tail(s) ELSE s
    IN  IF body = <<>> \/ \E i \in DOMAIN body : ~IsDigit(body[i])
        THEN Raise("ValueError")
        ELSE IF body = s THEN Ok(NatVal(body, 0)) ELSE Ok(0 - NatVal(body, 0))

RECURSIVE Split(_, _)
Split(s, sep) ==
    IF s = <<>> THEN << <<>> >>
    ELSE LET rest == Split(Tail(s), sep)
         IN  IF Head(s) = sep
             THEN << <<>> >> \o rest
             ELSE << <<Head(s)>> \o Head(rest) >> \o Tail(rest)

\* the lines of a text file, as iterating over the file handle gives them
Lines(content) ==
    LET parts == Split(content, "\n")
    IN  IF parts[Len(parts)] = <<>> THEN SubSeq(parts, 1, Len(parts) - 1)
        ELSE parts

\* csv.reader(fhandle, delimiter=","): one list of fields per line, [] for a blank line
csv_reader(content) ==
    LET lines == Lines(content)
    IN  [i \in DOMAIN lines |->
            IF lines[i] = <<>> THEN <<>> ELSE Split(lines[i], ",")]

(***************************************************************************)
(* load_notes: the note annotation parser.                                 *)
(***************************************************************************)
\* float(line[i]), with Python's 0-based index
FloatAt(line, i) ==
    IF Len(line) <= i THEN Raise("IndexError") ELSE float(line[i + 1])

\* np.array(intervals, dtype="float"): the start of each interval is still text
np_array_intervals(intervals) ==
    Array([i \in DOMAIN intervals |->
              <<float(intervals[i][1]).val, intervals[i][2]>>])

\* a variant: the second column taken as the end time, not the duration
RECURSIVE load_notes_loop_end_is_duration(_, _, _)
load_notes_loop_end_is_duration(rows, tuning, acc) ==
    IF rows = <<>> THEN Ok(acc)
    ELSE LET line == Head(rows)
             fields == FirstRaise(<<FloatAt(line, 0), FloatAt(line, 1),
                                    FloatAt(line, 2), float(tuning),
                                    FloatAt(line, 3)>>)
         IN  IF Raised(fields) THEN fields
             ELSE LET hz == midi_to_hz(FloatAt(line, 2).val, float(tuning).val)
                  IN  load_notes_loop_end_is_duration(Tail(rows), tuning,
                        [intervals |-> Append(acc.intervals,
                             <<line[1], FloatAt(line, 1).val>>),
                         pitches |-> Append(acc.pitches, hz[1]),
                         energy |-> Append(acc.energy, FloatAt(line, 3).val),
                         confidence |-> Append(acc.confidence, 1),
                         tuning_freq |-> hz[2]])

RECURSIVE load_notes_loop(_, _, _)
load_notes_loop(rows, tuning, acc) ==
    IF rows = <<>> THEN Ok(acc)
    ELSE LET line == Head(rows)
             fields == FirstRaise(<<FloatAt(line, 0), FloatAt(line, 1),
                                    FloatAt(line, 2), float(tuning),
                                    FloatAt(line, 3)>>)
         IN  IF Raised(fields) THEN fields
             ELSE LET hz == midi_to_hz(FloatAt(line, 2).val, float(tuning).val)
                  IN  load_notes_loop(Tail(rows), tuning,
                        [intervals |-> Append(acc.intervals,
                             <<line[1], FloatAt(line, 0).val + FloatAt(line, 1).val>>),
                         pitches |-> Append(acc.pitches, hz[1]),
                         energy |-> Append(acc.energy, FloatAt(line, 3).val),
                         confidence |-> Append(acc.confidence, 1),
                         tuning_freq |-> hz[2]])

load_notes(fhandle) ==
    LET reader == csv_reader(fhandle)
    IN  IF reader = <<>> THEN Raise("StopIteration")
        ELSE IF Head(reader) = <<>> THEN Raise("IndexError")
        ELSE LET tuning == Head(reader)[1]
                 lists == load_notes_loop(Tail(reader), tuning,
                             [intervals |-> <<>>, pitches |-> <<>>,
                              energy |-> <<>>, confidence |-> <<>>,
                              tuning_freq |-> FromInt(0)])
             IN  IF Raised(lists) THEN lists
                 ELSE LET data == NoteDataTonas(
                                     np_array_intervals(lists.val.intervals),
                                     Array(lists.val.pitches),
                                     Array(lists.val.energy),
                                     Array(lists.val.confidence))
                      IN  IF Raised(data) THEN data
                          ELSE Ok(<<data.val, lists.val.tuning_freq>>)

(***************************************************************************)
(* load_f0: the F0 annotation parser.                                      *)
(***************************************************************************)
\* the fields of a line split at whitespace
Fields(line) == SelectSeq(Split(line, " "), LAMBDA f : f # <<>>)

\* np.genfromtxt(fhandle): blank lines skipped, every line the same number
\* of columns, and the result squeezed: one row or one column gives a 1-D
\* array, one value a 0-d array, no line an empty 1-D array
genfromtxt(content) ==
    LET split == [i \in DOMAIN Lines(content) |-> Fields(Lines(content)[i])]
        rows == SelectSeq(split, LAMBDA r : r # <<>>)
        values == [i \in DOMAIN rows |->
                      [j \in DOMAIN rows[i] |-> float(rows[i][j]).val]]
    IN  IF rows = <<>> THEN Ok([ndim |-> 1, data |-> <<>>])
        ELSE IF \E i \in DOMAIN rows : Len(rows[i]) # Len(rows[1])
        THEN Raise("ValueError")
        ELSE IF Len(rows) = 1 /\ Len(rows[1]) = 1
        THEN Ok([ndim |-> 0, data |-> values[1]])
        ELSE IF Len(rows) = 1 THEN Ok([ndim |-> 1, data |-> values[1]])
        ELSE IF Len(rows[1]) = 1
        THEN Ok([ndim |-> 1, data |-> [i \in DOMAIN rows |-> values[i][1]]])
        ELSE Ok([ndim |-> 2, data |-> values])

\* (freqs_corr > 0).astype(float)
Positive(x) == IF x > 0 THEN 1 ELSE 0

load_f0(fhandle) ==
    LET reader == genfromtxt(fhandle)
    IN  IF Raised(reader) THEN reader
        ELSE IF reader.val.ndim = 0 THEN Raise("TypeError")
        ELSE IF reader.val.data # <<>> /\ reader.val.ndim = 1
        THEN Raise("IndexError")
        ELSE IF reader.val.data # <<>> /\ Len(reader.val.data[1]) < 4
        THEN Raise("IndexError")
        ELSE LET lines == reader.val.data
                 times == [i \in DOMAIN lines |-> lines[i][1]]
                 energies == [i \in DOMAIN lines |-> lines[i][2]]
                 freqs == [i \in DOMAIN lines |-> lines[i][3]]
                 freqs_corr == [i \in DOMAIN lines |-> lines[i][4]]
                 confidence == [i \in DOMAIN lines |-> Positive(freqs_corr[i])]
             IN  F0DataTonas(Array(times), Array(freqs), Array(freqs_corr),
                             Array(energies), Array(confidence))

(***************************************************************************)
(* The Track facade.                                                       *)
(***************************************************************************)
Tracks == {"t1", "t2"}

Path(t, kind) == [type |-> "str", track |-> t, kind |-> kind]

\* a cached property not computed yet: no entry in the instance dictionary
Unset == [type |-> "unset"]

\* io.coerce_to_string_io: the parser applied to the file at file_path, and
\* None, the parser not run, when there is no such file
\* (func names the parser the decorator wraps)
coerce_to_string_io(func, file_path) ==
    IF IsNone(file_path) THEN Ok(None)
    ELSE IF ~disk[file_path].exists THEN Ok(None)
    ELSE IF func = "load_f0" THEN load_f0(disk[file_path].content)
    ELSE load_notes(disk[file_path].content)

\* r[i], with Python's 0-based index
Subscript(r, i) ==
    IF ~Returned(r) THEN r
    ELSE IF IsNone(r.val) THEN Raise("TypeError")
    ELSE Ok(r.val[i + 1])

\* core.cached_property: the getter runs when the instance dictionary of obj
\* has no entry of that name, and what it returns is stored there; an
\* exception of the getter stores nothing
cached_property(store, obj, name, getter) ==
    IF store[obj][name] # Unset
    THEN [out |-> Ok(store[obj][name]), cache |-> store, called |-> FALSE]
    ELSE [out |-> getter,
          cache |-> IF Returned(getter)
                    THEN [store EXCEPT ![obj][name] = getter.val]
                    ELSE store,
          called |-> TRUE]

\* property: the getter runs on every access
property(store, getter) == [out |-> getter, cache |-> store, called |-> TRUE]

Track_tuning_frequency(t) ==
    property(cache, Subscript(coerce_to_string_io("load_notes", paths[t].notes), 1))

\* a variant: f0 as a plain property
Track_f0_uncached(t) ==
    property(cache, coerce_to_string_io("load_f0", paths[t].f0))

\* a variant: f0 cached on the class, for all tracks at once
Track_f0_class_cache(t) ==
    LET res == cached_property(cache, t, "f0",
                               coerce_to_string_io("load_f0", paths[t].f0))
    IN  [res EXCEPT !.cache = [u \in Tracks |->
                                  [cache[u] EXCEPT !.f0 = res.cache[t].f0]]]

Track_f0(t) ==
    cached_property(cache, t, "f0", coerce_to_string_io("load_f0", paths[t].f0))

\* a variant: notes turning a parser's exception into None
Track_notes_none_on_error(t) ==
    LET getter == Subscript(coerce_to_string_io("load_notes", paths[t].notes), 0)
    IN  cached_property(cache, t, "notes",
                        IF Raised(getter) THEN Ok(None) ELSE getter)

Track_notes(t) ==
    cached_property(cache, t, "notes",
                    Subscript(coerce_to_string_io("load_notes", paths[t].notes), 0))

(***************************************************************************)
(* Bounds.                                                                 *)
(***************************************************************************)
MaxMidi == 127

MaxDev == 2

MaxLen == 2

MaxRows == 2

SeqsUpTo(S, n) == UNION {[1..k -> S] : k \in 0..n}

ArraysOf(S) == {Array(q) : q \in SeqsUpTo(S, MaxLen)}

\* no track is part of a run that calls one function on its own
NoTracks ==
    /\ paths = <<>>
    /\ disk = <<>>
    /\ cache = <<>>

(***************************************************************************)
(* The converter called on its own.                                        *)
(***************************************************************************)
InitHz ==
    /\ input \in [midi_note : 0..MaxMidi, tuning_deviation : -MaxDev..MaxDev]
    /\ src = None
    /\ ret = NotCalled
    /\ NoTracks

Call_midi_to_hz ==
    /\ ret = NotCalled
    /\ ret' = Ok(midi_to_hz(input.midi_note, input.tuning_deviation))
    /\ UNCHANGED <<input, src, paths, disk, cache>>

NextHz == Call_midi_to_hz

SpecHz == InitHz /\ [][NextHz]_vars

(***************************************************************************)
(* C8: midi_to_hz(69, 0) = (440, 440); for tuning deviation 0 and every    *)
(* MIDI pitch m = 69 + 12k the note frequency is 440 * 2^k and the tuning  *)
(* frequency is 440, whatever m is.                                        *)
(***************************************************************************)
C8_Octaves ==
    (Returned(ret) /\ input.tuning_deviation = 0) =>
        /\ ret.val[2] = FromInt(440)
        /\ input.midi_note = 69 => ret.val = <<FromInt(440), FromInt(440)>>
        /\ \A k \in -6..5 :
              input.midi_note = 69 + 12 * k =>
                 IF k >= 0
                 THEN ret.val[1] = FromInt(440 * IntPow2(k))
                 ELSE Mul(ret.val[1], FromInt(IntPow2(-k))) = FromInt(440)

C8_Witness ==
    /\ Returned(ret)
    /\ input.tuning_deviation = 0
    /\ input.midi_note = 81
    /\ ret.val[1] = FromInt(880)

(***************************************************************************)
(* The containers constructed on their own, from any arrays: intervals     *)
(* sound or not, times in or out of order, confidence in or out of [0,1],  *)
(* or not given.                                                           *)
(***************************************************************************)
IntervalVals == {<<0, 1>>, <<1, 2>>, <<1, 1>>, <<-1, 0>>}

TimeVals == {-1, 0, 1}

ConfVals == {-1, 0, 1, 2}

InitData ==
    /\ \/ input \in [cls : {"NoteDataTonas"},
                     intervals : ArraysOf(IntervalVals),
                     notes : ArraysOf({0}),
                     energies : ArraysOf({0}),
                     confidence : ArraysOf(ConfVals) \cup {None}]
       \/ input \in [cls : {"F0DataTonas"},
                     times : ArraysOf(TimeVals),
                     automatic_frequencies : ArraysOf({0}),
                     frequencies : ArraysOf({0}),
                     energies : ArraysOf({0}),
                     confidence : ArraysOf(ConfVals) \cup {None}]
    /\ src = None
    /\ ret = NotCalled
    /\ NoTracks

New_NoteDataTonas ==
    /\ ret = NotCalled
    /\ input.cls = "NoteDataTonas"
    /\ ret' = NoteDataTonas(input.intervals, input.notes, input.energies,
                            input.confidence)
    /\ UNCHANGED <<input, src, paths, disk, cache>>

New_F0DataTonas ==
    /\ ret = NotCalled
    /\ input.cls = "F0DataTonas"
    /\ ret' = F0DataTonas(input.times, input.automatic_frequencies,
                          input.frequencies, input.energies, input.confidence)
    /\ UNCHANGED <<input, src, paths, disk, cache>>

NextData == New_NoteDataTonas \/ New_F0DataTonas

SpecData == InitData /\ [][NextData]_vars

(***************************************************************************)
(* C3: constructing NoteDataTonas or F0DataTonas fails with a              *)
(* ValidationError, and yields no object, whenever two of the given        *)
(* sequences differ in length, an interval has end <= start or start < 0,  *)
(* the times are not non-negative and strictly increasing, or a confidence *)
(* lies outside [0,1]; so every container that exists satisfies all these. *)
(***************************************************************************)
C3_Given(o) ==
    IF o.cls = "NoteDataTonas"
    THEN <<o.intervals, o.notes, o.energies, o.confidence>>
    ELSE <<o.times, o.automatic_frequencies, o.frequencies, o.energies,
           o.confidence>>

C3_Lengths(o) ==
    {Len(C3_Given(o)[i].data) :
        i \in {j \in DOMAIN C3_Given(o) : C3_Given(o)[j].type = "ndarray"}}

C3_BadConfidence(o) ==
    /\ o.confidence.type = "ndarray"
    /\ \E i \in 1..Len(o.confidence.data) :
          ~(0 <= o.confidence.data[i] /\ o.confidence.data[i] <= 1)

C3_BadIntervals(o) ==
    /\ o.cls = "NoteDataTonas"
    /\ \E i \in 1..Len(o.intervals.data) :
          LET iv == o.intervals.data[i] IN iv[2] <= iv[1] \/ iv[1] < 0

C3_BadTimes(o) ==
    /\ o.cls = "F0DataTonas"
    /\ ~ /\ \A i \in 1..Len(o.times.data) : o.times.data[i] >= 0
         /\ \A i, j \in 1..Len(o.times.data) :
               i < j => o.times.data[i] < o.times.data[j]

C3_Invalid(o) ==
    \/ Cardinality(C3_Lengths(o)) > 1
    \/ C3_BadConfidence(o)
    \/ C3_BadIntervals(o)
    \/ C3_BadTimes(o)

C3_ContainerValidation ==
    ret # NotCalled =>
        /\ C3_Invalid(input) => ret = Raise("ValidationError")
        /\ Returned(ret) =>
              ~C3_Invalid([f \in DOMAIN input |->
                              IF f = "cls" THEN ret.val.type ELSE ret.val[f]])

C3_Witness ==
    /\ ret = Raise("ValidationError")
    /\ input.cls = "NoteDataTonas"
    /\ Len(input.energies.data) # Len(input.intervals.data)
    /\ Len(input.notes.data) = Len(input.intervals.data)
    /\ ~C3_BadIntervals(input)
    /\ ~C3_BadConfidence(input)

(***************************************************************************)
(* Annotation files.  A file is written from a sequence of rows, a row     *)
(* from a sequence of fields, a field being a number or text that is not   *)
(* one; the parsers get the characters.                                    *)
(***************************************************************************)
Num(n) == [num |-> TRUE, n |-> n]

Bad == [num |-> FALSE, n |-> 0]

FieldText(f) == IF f.num THEN str(f.n) ELSE <<"x">>

RECURSIVE RowText(_, _)
RowText(row, sep) ==
    IF row = <<>> THEN <<>>
    ELSE IF Len(row) = 1 THEN FieldText(row[1])
    ELSE FieldText(row[1]) \o <<sep>> \o RowText(Tail(row), sep)

RECURSIVE FileText(_, _)
FileText(rows, sep) ==
    IF rows = <<>> THEN <<>>
    ELSE RowText(Head(rows), sep) \o <<"\n">> \o FileText(Tail(rows), sep)

(***************************************************************************)
(* load_notes called on its own, on note files sound and unsound: no       *)
(* tuning line, a blank or non-numeric one, rows with a column missing or  *)
(* not numeric, a blank row, a note of no duration, a negative start.      *)
(***************************************************************************)
TuningRows == {<<Num(0)>>, <<Num(50)>>, <<Num(-50)>>, <<Bad>>, <<>>}

ValidNoteRows ==
    {<<Num(s), Num(d), Num(m), Num(7)>> : s \in {0, 1}, d \in {1, 2}, m \in {69, 81}}

OtherNoteRows ==
    { <<Num(0), Num(0), Num(69), Num(7)>>,
      <<Num(-1), Num(1), Num(69), Num(7)>>,
      <<Bad, Num(1), Num(69), Num(7)>>,
      <<Num(0), Bad, Num(69), Num(7)>>,
      <<Num(0), Num(1), Bad, Num(7)>>,
      <<Num(0), Num(1), Num(69), Bad>>,
      <<Num(0), Num(1), Num(69)>>,
      <<Num(0), Num(1), Num(69), Num(7), Num(5)>>,
      <<>> }

NoteSrcs ==
    {<<>>} \cup
    {<<t>> \o rows : t \in TuningRows,
                     rows \in SeqsUpTo(ValidNoteRows \cup OtherNoteRows, MaxRows)}

InitNotes ==
    /\ src \in NoteSrcs
    /\ input = FileText(src, ",")
    /\ ret = NotCalled
    /\ NoTracks

Call_load_notes ==
    /\ ret = NotCalled
    /\ ret' = load_notes(input)
    /\ UNCHANGED <<input, src, paths, disk, cache>>

NextNotes == Call_load_notes

SpecNotes == InitNotes /\ [][NextNotes]_vars

\* the rows after the tuning line
DataRows(f) == Tail(f)

NumericRow(row, n) == Len(row) = n /\ \A i \in 1..n : row[i].num

ValidNoteFile(f) ==
    /\ Len(f) >= 1
    /\ NumericRow(f[1], 1)
    /\ \A i \in 2..Len(f) :
          NumericRow(f[i], 4) /\ f[i][1].n >= 0 /\ f[i][2].n > 0

(***************************************************************************)
(* C4: for every valid note file with tuning deviation d and n >= 1 data   *)
(* rows, load_notes returns n notes in file order, note i with interval    *)
(* [start_i, start_i + duration_i], pitch midi_to_hz(midi_i, d), the row's *)
(* energy and confidence 1.0.                                              *)
(***************************************************************************)
C4_NotesParsed ==
    (ret # NotCalled /\ ValidNoteFile(src) /\ Len(src) >= 2) =>
        /\ Returned(ret)
        /\ LET notes == ret.val[1]
               rows == DataRows(src)
               d == src[1][1].n
           IN  /\ Len(notes.intervals.data) = Len(rows)
               /\ Len(notes.notes.data) = Len(rows)
               /\ Len(notes.energies.data) = Len(rows)
               /\ Len(notes.confidence.data) = Len(notes.intervals.data)
               /\ \A i \in 1..Len(rows) :
                     /\ notes.intervals.data[i] =
                           <<rows[i][1].n, rows[i][1].n + rows[i][2].n>>
                     /\ notes.intervals.data[i][2] - notes.intervals.data[i][1]
                           = rows[i][2].n
                     /\ notes.notes.data[i] = midi_to_hz(rows[i][3].n, d)[1]
                     /\ notes.energies.data[i] = rows[i][4].n
                     /\ notes.confidence.data[i] = 1

C4_Witness ==
    /\ Returned(ret)
    /\ src = <<<<Num(0)>>, <<Num(0), Num(1), Num(69), Num(7)>>,
               <<Num(1), Num(2), Num(81), Num(7)>>>>
    /\ ret.val[1].intervals.data = <<<<0, 1>>, <<1, 3>>>>
    /\ ret.val[1].notes.data = <<FromInt(440), FromInt(880)>>

(***************************************************************************)
(* C5: a note file of the tuning row alone parses to zero notes and the    *)
(* tuning frequency 440 * 2^(d/1200) of its tuning value d.                *)
(***************************************************************************)
C5_TuningOnly ==
    (ret # NotCalled /\ ValidNoteFile(src) /\ Len(src) = 1) =>
        /\ Returned(ret)
        /\ ret.val[1].intervals.data = <<>>
        /\ ret.val[2] = Mul(FromInt(440), Pow2(src[1][1].n, 1200))

(***************************************************************************)
(* C7: load_notes fails with a ParseError when the tuning line is missing  *)
(* (empty file, blank first line) or non-numeric, whatever follows it,     *)
(* or a data row has fewer than 4 columns or a non-numeric field.          *)
(***************************************************************************)
ParseErrors == {"StopIteration", "IndexError", "ValueError"}

MalformedNoteFile(f) ==
    \/ f = <<>>
    \/ f[1] = <<>>
    \/ ~f[1][1].num
    \/ \E i \in 2..Len(f) :
          Len(f[i]) < 4 \/ \E j \in 1..Len(f[i]) : j <= 4 /\ ~f[i][j].num

C7_ParseErrors ==
    (ret # NotCalled /\ MalformedNoteFile(src)) => ret.exc \in ParseErrors

(***************************************************************************)
(* load_f0 called on its own, on F0 files of numeric fields: rows of 4     *)
(* columns, of fewer or more, blank rows, times in and out of order.       *)
(***************************************************************************)
ValidF0Rows ==
    {<<Num(t), Num(7), Num(220), Num(c)>> : t \in {0, 1, 2}, c \in {-1, 0, 230}}

OtherF0Rows ==
    { <<Num(-1), Num(7), Num(220), Num(230)>>,
      <<Num(0), Num(7), Num(220)>>,
      <<Num(0), Num(7), Num(220), Num(230), Num(5)>>,
      <<Num(0)>>,
      <<>> }

F0Srcs == SeqsUpTo(ValidF0Rows \cup OtherF0Rows, MaxRows)

InitF0 ==
    /\ src \in F0Srcs
    /\ input = FileText(src, " ")
    /\ ret = NotCalled
    /\ NoTracks

Call_load_f0 ==
    /\ ret = NotCalled
    /\ ret' = load_f0(input)
    /\ UNCHANGED <<input, src, paths, disk, cache>>

NextF0 == Call_load_f0

SpecF0 == InitF0 /\ [][NextF0]_vars

ValidF0File(f) ==
    /\ \A i \in 1..Len(f) : NumericRow(f[i], 4) /\ f[i][1].n >= 0
    /\ \A i, j \in 1..Len(f) : i < j => f[i][1].n < f[j][1].n

(***************************************************************************)
(* C6: for every F0 file of n >= 0 well-formed 4-column rows (n = 0 and    *)
(* n = 1 included) load_f0 returns five sequences of length n, entry i     *)
(* with time, energy, raw and corrected frequency from columns 1, 2, 3, 4  *)
(* of row i, and confidence 1.0 iff the corrected frequency is > 0, else   *)
(* 0.0.                                                                    *)
(***************************************************************************)
C6_F0Parsed ==
    (ret # NotCalled /\ ValidF0File(src)) =>
        /\ Returned(ret)
        /\ LET f0 == ret.val
               n == Len(src)
           IN  /\ Len(f0.times.data) = n
               /\ Len(f0.energies.data) = n
               /\ Len(f0.automatic_frequencies.data) = n
               /\ Len(f0.frequencies.data) = n
               /\ Len(f0.confidence.data) = n
               /\ \A i \in 1..n :
                     /\ f0.times.data[i] = src[i][1].n
                     /\ f0.energies.data[i] = src[i][2].n
                     /\ f0.automatic_frequencies.data[i] = src[i][3].n
                     /\ f0.frequencies.data[i] = src[i][4].n
                     /\ f0.confidence.data[i] \in {0, 1}
                     /\ f0.confidence.data[i] = 1 <=> f0.frequencies.data[i] > 0

(***************************************************************************)
(* Two tracks and their annotation files: a path the index does not have,  *)
(* a file that is not there, files that parse and files that do not.       *)
(* Any property of any track is accessed, in any order, any number of      *)
(* times.                                                                  *)
(***************************************************************************)
NoPath == [resolved |-> FALSE, exists |-> FALSE, content |-> <<>>]

MissingFile == [resolved |-> TRUE, exists |-> FALSE, content |-> <<>>]

Present(text) == [resolved |-> TRUE, exists |-> TRUE, content |-> text]

TrackF0Files ==
    {NoPath, MissingFile} \cup
    {Present(FileText(rows, " ")) : rows \in
        { <<>>,
          <<<<Num(0), Num(7), Num(220), Num(230)>>>>,
          <<<<Num(0), Num(7), Num(220), Num(230)>>,
            <<Num(1), Num(7), Num(220), Num(0)>>>>,
          <<<<Num(1), Num(7), Num(220), Num(230)>>,
            <<Num(1), Num(7), Num(220), Num(0)>>>> }}

TrackNoteFiles ==
    {NoPath, MissingFile} \cup
    {Present(FileText(rows, ",")) : rows \in
        { <<<<Num(0)>>>>,
          <<<<Num(0)>>, <<Num(0), Num(1), Num(69), Num(7)>>,
            <<Num(1), Num(2), Num(81), Num(7)>>>>,
          <<<<Num(50)>>, <<Num(0), Num(1), Bad, Num(7)>>>>,
          <<<<Num(0)>>, <<Num(0), Num(0), Num(69), Num(7)>>>> }}

InitTrack ==
    \E files \in [Tracks -> [f0 : TrackF0Files, notes : TrackNoteFiles]] :
        /\ paths = [t \in Tracks |->
                      [k \in {"f0", "notes"} |->
                          IF files[t][k].resolved THEN Path(t, k) ELSE None]]
        /\ disk = [p \in {Path(t, k) : t \in Tracks, k \in {"f0", "notes"}} |->
                      [exists |-> files[p.track][p.kind].exists,
                       content |-> files[p.track][p.kind].content]]
        /\ cache = [t \in Tracks |-> [f0 |-> Unset, notes |-> Unset]]
        /\ input = None
        /\ src = None
        /\ ret = NotCalled

\* an access: input records the property accessed, whether its getter ran,
\* and the caches as they were before
Get(t, prop, res) ==
    /\ input' = [track |-> t, prop |-> prop, called |-> res.called,
                 before |-> cache]
    /\ ret' = res.out
    /\ cache' = res.cache
    /\ UNCHANGED <<src, paths, disk>>

Get_f0(t) == Get(t, "f0", Track_f0(t))

Get_notes(t) == Get(t, "notes", Track_notes(t))

Get_tuning_frequency(t) == Get(t, "tuning_frequency", Track_tuning_frequency(t))

NextTrack ==
    \E t \in Tracks : Get_f0(t) \/ Get_notes(t) \/ Get_tuning_frequency(t)

SpecTrack == InitTrack /\ [][NextTrack]_vars

Accessed == ret # NotCalled

\* the annotation file a property reads
FileOf(prop) == IF prop = "f0" THEN "f0" ELSE "notes"

Absent(t, kind) == IsNone(paths[t][kind]) \/ ~disk[paths[t][kind]].exists

\* what the parser of a property makes of the track's file, run directly
Parsed(t, prop) ==
    IF prop = "f0" THEN load_f0(disk[Path(t, "f0")].content)
    ELSE load_notes(disk[Path(t, "notes")].content)

(***************************************************************************)
(* C1: accessing f0 (melody) or notes on a track whose annotation file     *)
(* does not exist (no path, or no file at it) returns None and raises      *)
(* nothing, on every access.                                               *)
(***************************************************************************)
C1_AbsentIsNone ==
    (/\ Accessed
     /\ input.prop \in {"f0", "notes"}
     /\ Absent(input.track, input.prop)) => ret = Ok(None)

(***************************************************************************)
(* C2: once an access to f0 or notes has succeeded, the annotation is      *)
(* stored, and every later access to that property of that track returns   *)
(* the stored annotation without running the parser again; a stored        *)
(* annotation is never replaced.                                           *)
(***************************************************************************)
C2_ComputedOnce ==
    (Accessed /\ input.prop \in {"f0", "notes"}) =>
        LET t == input.track
            p == input.prop
            old == input.before[t][p]
        IN  /\ old # Unset =>
                  ~input.called /\ ret = Ok(old) /\ cache = input.before
            /\ (old = Unset /\ Returned(ret)) =>
                  input.called /\ cache[t][p] = ret.val
            /\ \A u \in Tracks : \A q \in {"f0", "notes"} :
                  input.before[u][q] # Unset => cache[u][q] = input.before[u][q]

C2_Witness ==
    /\ Accessed
    /\ input.prop = "f0"
    /\ input.before[input.track].f0 # Unset
    /\ input.before[input.track].f0 # None
    /\ ~input.called
    /\ ret = Ok(input.before[input.track].f0)

(***************************************************************************)
(* C9: each Track owns its cache: an access on one track leaves the cache  *)
(* of every other track as it was, and its result is what the track's own  *)
(* files give, whatever was accessed on other tracks before.               *)
(***************************************************************************)
C9_Fresh == [u \in Tracks |-> [f0 |-> Unset, notes |-> Unset]]

\* the outcome of the access on a track nothing has been accessed on
C9_Alone(t, prop) ==
    IF prop = "f0"
    THEN cached_property(C9_Fresh, t, "f0",
            coerce_to_string_io("load_f0", paths[t].f0)).out
    ELSE IF prop = "notes"
    THEN cached_property(C9_Fresh, t, "notes",
            Subscript(coerce_to_string_io("load_notes", paths[t].notes), 0)).out
    ELSE Subscript(coerce_to_string_io("load_notes", paths[t].notes), 1)

C9_OwnCache ==
    Accessed =>
        /\ \A u \in Tracks \ {input.track} : cache[u] = input.before[u]
        /\ ret = C9_Alone(input.track, input.prop)

C9_Witness ==
    /\ Accessed
    /\ input.track = "t2"
    /\ input.prop = "f0"
    /\ input.called
    /\ input.before["t1"].f0 \notin {Unset, None}
    /\ cache["t2"].f0 \notin {Unset, None}
    /\ cache["t1"].f0 # cache["t2"].f0

(***************************************************************************)
(* C10: when the file exists and its parsing or the container's validation *)
(* fails during an access to f0, notes or tuning_frequency, the access     *)
(* raises that same error, stores nothing, leaves every cache as it was,   *)
(* and the getter runs again on the next access.                           *)
(***************************************************************************)
C10_ErrorsSurface ==
    (/\ Accessed
     /\ ~Absent(input.track, FileOf(input.prop))
     /\ Raised(Parsed(input.track, input.prop))) =>
        /\ ret = Parsed(input.track, input.prop)
        /\ input.called
        /\ cache = input.before
        /\ input.prop \in {"f0", "notes"} => cache[input.track][input.prop] = Unset

C10_Witness ==
    /\ Accessed
    /\ input.prop = "notes"
    /\ ret = Raise("ValidationError")
    /\ input.called
    /\ input.before[input.track].f0 # Unset

====
